---- MODULE Spec2Model ----
(***************************************************************************)
(* The Flavor admission plugin (plugin/pkg/admission/flavor/admission.go). *)
(*                                                                         *)
(* A flavor catalog (map flavor name -> api.ResourceList) is loaded once   *)
(* by NewFlavor.  Admit filters the request, then walks the containers of  *)
(* the pod, matching every container's resource requests against the      *)
(* catalog with matchFlavor, which completes a partial request in place.   *)
(*                                                                         *)
(* Go maps are reference values: matchFlavor receives the flavor and the   *)
(* request by reference, so the model returns what the call leaves in      *)
(* both.  Ranging over a Go map enumerates it in an unspecified order, so  *)
(* every range over the catalog picks a permutation of the flavor names.   *)
(***************************************************************************)
EXTENDS Integers, Sequences, FiniteSets, TLC

\* Longest container sequence of a pod under admission.
MaxContainers == 2
\* Longest container sequence of a pod in the concurrent specification.
MaxConcContainers == 2

---------------------------------------------------------------------------
(* Quantities, resource lists, catalogs                                    *)

\* A resource.Quantity: v is the amount in the dimension's smallest unit,
\* s the string the quantity was written as ("1" and "1000m" are both 1000).
Quantity(v, s) == [v |-> v, s |-> s]

\* Quantity.Cmp compares the amounts, never the strings.
Cmp(a, b) == IF a.v < b.v THEN -1 ELSE IF a.v > b.v THEN 1 ELSE 0

Dims == {"cpu", "memory"}

FlavorNames == {"small", "nano"}

\* Quantities a flavor of the catalog file may give a dimension.
FlavorQuantities ==
  [d \in Dims |->
     IF d = "cpu" THEN {Quantity(250, "250m"), Quantity(1000, "1")}
                  ELSE {Quantity(64, "64Mi"), Quantity(128, "128Mi")}]

\* Quantities a container may request for a dimension.
RequestQuantities ==
  [d \in Dims |->
     IF d = "cpu" THEN FlavorQuantities[d] \cup {Quantity(1000, "1000m")}
                  ELSE FlavorQuantities[d]]

\* api.ResourceList: map from resource name to quantity.
ResourceLists(Q) ==
  UNION { {rl \in [D -> UNION {Q[d] : d \in D}] : \A d \in D : rl[d] \in Q[d]}
          : D \in SUBSET Dims }

EmptyList == [d \in {} |-> Quantity(0, "0")]

FlavorLists == ResourceLists(FlavorQuantities) \ {EmptyList}

RequestLists == ResourceLists(RequestQuantities)

\* flavors.Flavors: map[flavorType]api.ResourceList, as decoded by NewFlavor.
Catalogs == UNION { [N -> FlavorLists] : N \in SUBSET FlavorNames }

RECURSIVE SeqsUpTo(_, _)
SeqsUpTo(S, n) ==
  IF n = 0 THEN {<<>>}
  ELSE LET shorter == SeqsUpTo(S, n - 1)
       IN  shorter \cup {Append(s, x) : s \in {t \in shorter : Len(t) = n - 1}, x \in S}

\* pod.Spec.Containers, each container reduced to its Resources.Requests.
Pods == SeqsUpTo(RequestLists, MaxContainers)

\* admission.Attributes: GetKind, GetSubresource, GetResource.
Attributes ==
  [kind : {"Pod", "Service"}, subresource : {"", "status"},
   resource : {"pods", "services"}]

\* The catalogs of the concurrent specification: two flavors that share
\* their cpu amount, and a single flavor.
ConcCatalogs ==
  { [n \in FlavorNames |->
       [d \in Dims |-> IF d = "cpu" THEN Quantity(250, "250m")
                       ELSE IF n = "small" THEN Quantity(64, "64Mi")
                       ELSE Quantity(128, "128Mi")]],
    [n \in {"small"} |->
       [d \in Dims |-> IF d = "cpu" THEN Quantity(1000, "1") ELSE Quantity(64, "64Mi")]] }

\* The container requests of the concurrent specification.
ConcRequestLists ==
  { EmptyList,
    [d \in {"cpu"} |-> Quantity(250, "250m")],
    [d \in {"cpu"} |-> Quantity(1000, "1000m")],
    [d \in Dims |-> IF d = "cpu" THEN Quantity(250, "250m") ELSE Quantity(128, "128Mi")] }

ConcPods == SeqsUpTo(ConcRequestLists, MaxConcContainers)

ConcAttributes == {a \in Attributes : a.subresource = "" /\ a.resource = "pods"}

\* The enumeration orders a range over a map with key set S can take.
Perms(S) ==
  {o \in [1..Cardinality(S) -> S] : \A a, b \in 1..Cardinality(S) : o[a] = o[b] => a = b}

---------------------------------------------------------------------------
(* matchFlavor                                                             *)

\* matchFlavor filling req from the flavor before the comparison has failed.
matchFlavorEager(flavor, req) ==
  LET resources == DOMAIN flavor \ DOMAIN req
      mismatch(k) == k \notin DOMAIN flavor \/ Cmp(flavor[k], req[k]) # 0
  IN  [found |-> ~\E k \in DOMAIN req : mismatch(k),
       req |-> [k \in DOMAIN req \cup resources |->
                  IF k \in resources THEN flavor[k] ELSE req[k]],
       flavor |-> flavor]

\* matchFlavor returning true without the final copy into req.
matchFlavorNoBackfill(flavor, req) ==
  LET mismatch(k) == k \notin DOMAIN flavor \/ Cmp(flavor[k], req[k]) # 0
  IN  [found |-> ~\E k \in DOMAIN req : mismatch(k), req |-> req, flavor |-> flavor]

\* matchFlavor without the fv.Cmp(v) != 0 test.
matchFlavorNoCmp(flavor, req) ==
  LET resources == DOMAIN flavor \ DOMAIN req
  IN  IF \E k \in DOMAIN req : k \notin DOMAIN flavor
      THEN [found |-> FALSE, req |-> req, flavor |-> flavor]
      ELSE [found |-> TRUE,
            req |-> [k \in DOMAIN req \cup resources |->
                       IF k \in resources THEN flavor[k] ELSE req[k]],
            flavor |-> flavor]

\* matchFlavor copying every dimension of the flavor into req.
matchFlavorOverwrite(flavor, req) ==
  LET mismatch(k) == k \notin DOMAIN flavor \/ Cmp(flavor[k], req[k]) # 0
  IN  IF \E k \in DOMAIN req : mismatch(k)
      THEN [found |-> FALSE, req |-> req, flavor |-> flavor]
      ELSE [found |-> TRUE, req |-> flavor, flavor |-> flavor]

\* matchFlavor with delete(flavor, k) in place of delete(resources, k).
matchFlavorDeleteFromFlavor(flavor, req) ==
  LET mismatch(k) == k \notin DOMAIN flavor \/ Cmp(flavor[k], req[k]) # 0
      resources == DOMAIN flavor \ DOMAIN req
  IN  IF \E k \in DOMAIN req : mismatch(k)
      THEN [found |-> FALSE, req |-> req, flavor |-> flavor]
      ELSE [found |-> TRUE,
            req |-> [k \in DOMAIN req \cup resources |->
                       IF k \in resources THEN flavor[k] ELSE req[k]],
            flavor |-> [k \in resources |-> flavor[k]]]

\* matchFlavor(flavor, req): false as soon as a requested dimension is
\* missing from the flavor or differs in amount; otherwise the flavor's
\* dimensions the request lacks (the ones left in `resources`) are copied
\* into req.  The result carries what the call leaves in both maps.
matchFlavor(flavor, req) ==
  LET resources == DOMAIN flavor \ DOMAIN req
      mismatch(k) == k \notin DOMAIN flavor \/ Cmp(flavor[k], req[k]) # 0
  IN  IF \E k \in DOMAIN req : mismatch(k)
      THEN [found |-> FALSE, req |-> req, flavor |-> flavor]
      ELSE [found |-> TRUE,
            req |-> [k \in DOMAIN req \cup resources |->
                       IF k \in resources THEN flavor[k] ELSE req[k]],
            flavor |-> flavor]

\* The flavor loop setting found only on a match, so that a match of an
\* earlier container is never overwritten.
RECURSIVE matchLoopSticky(_, _, _, _)
matchLoopSticky(fl, order, reqs, found) ==
  IF order = <<>>
  THEN [found |-> found, req |-> reqs, flavors |-> fl, name |-> ""]
  ELSE LET r  == matchFlavor(fl[Head(order)], reqs)
           f2 == [fl EXCEPT ![Head(order)] = r.flavor]
       IN  IF r.found
           THEN [found |-> TRUE, req |-> r.req, flavors |-> f2, name |-> Head(order)]
           ELSE matchLoopSticky(f2, Tail(order), r.req, found)

\* The loop of Admit over f.flavors.Flavors for one container: found is
\* assigned by every matchFlavor call and the loop breaks on the first true.
\* `name` records the flavor that matched ("" when none did).
RECURSIVE matchLoop(_, _, _, _)
matchLoop(fl, order, reqs, found) ==
  IF order = <<>>
  THEN [found |-> found, req |-> reqs, flavors |-> fl, name |-> ""]
  ELSE LET r  == matchFlavor(fl[Head(order)], reqs)
           f2 == [fl EXCEPT ![Head(order)] = r.flavor]
       IN  IF r.found
           THEN [found |-> TRUE, req |-> r.req, flavors |-> f2, name |-> Head(order)]
           ELSE matchLoop(f2, Tail(order), r.req, r.found)

\* The filters of Admit without the subresource test.
IgnoredNoSubresource(a) ==
  \/ a.kind # "Pod"
  \/ a.resource # "pods"

\* The three early returns of Admit: not a Pod, a subresource, not "pods".
Ignored(a) ==
  \/ a.kind # "Pod"
  \/ a.subresource # ""
  \/ a.resource # "pods"

---------------------------------------------------------------------------
(* State                                                                   *)

VARIABLES
  flavors,    \* f.flavors.Flavors, shared by every Admit call
  flavors0,   \* the catalog as NewFlavor built it
  attrs,      \* attrs[c]: the admission.Attributes of call c
  pod,        \* pod[c]: the containers' requests of the object of call c
  pod0,       \* pod0[c]: pod[c] as it was when Admit was called
  pc,         \* pc[c]: "running" or "done"
  i,          \* i[c]: index of the container the loop of call c is at
  found,      \* found[c]: the local variable found of call c
  result,     \* result[c]: "none" until Admit returns, then "nil" or "error"
  last        \* last[c]: the most recent container call c ran the flavor loop on

vars == <<flavors, flavors0, attrs, pod, pod0, pc, i, found, result, last>>

Calls == DOMAIN pc

NoLast == [idx |-> 0, order |-> <<>>, name |-> ""]

\* The state when the calls in C enter Admit, after NewFlavor built catalog.
Start(C, catalog, as, ps) ==
  /\ flavors = catalog
  /\ flavors0 = catalog
  /\ attrs = as
  /\ pod = ps
  /\ pod0 = ps
  /\ pc = [c \in C |-> "running"]
  /\ i = [c \in C |-> 1]
  /\ found = [c \in C |-> FALSE]
  /\ result = [c \in C |-> "none"]
  /\ last = [c \in C |-> NoLast]

Init ==
  \E catalog \in Catalogs, a \in Attributes, p \in Pods :
    Start({1}, catalog, [c \in {1} |-> a], [c \in {1} |-> p])

---------------------------------------------------------------------------
(* Admit                                                                   *)

\* Admit returns nil at one of its three filters.
AdmitIgnore(c) ==
  /\ pc[c] = "running"
  /\ Ignored(attrs[c])
  /\ pc' = [pc EXCEPT ![c] = "done"]
  /\ result' = [result EXCEPT ![c] = "nil"]
  /\ UNCHANGED <<flavors, flavors0, attrs, pod, pod0, i, found, last>>

\* One iteration of the container loop on a container with requests.
AdmitContainer(c) ==
  /\ pc[c] = "running"
  /\ ~Ignored(attrs[c])
  /\ i[c] <= Len(pod[c])
  /\ pod[c][i[c]] # EmptyList
  /\ \E order \in Perms(DOMAIN flavors) :
       LET r == matchLoop(flavors, order, pod[c][i[c]], found[c])
       IN  /\ pod' = [pod EXCEPT ![c][i[c]] = r.req]
           /\ found' = [found EXCEPT ![c] = r.found]
           /\ flavors' = r.flavors
           /\ last' = [last EXCEPT ![c] = [idx |-> i[c], order |-> order, name |-> r.name]]
  /\ i' = [i EXCEPT ![c] = i[c] + 1]
  /\ UNCHANGED <<flavors0, attrs, pod0, pc, result>>

\* The loop ends, past the last container or by the break at a container
\* without requests, and Admit returns by the value of found.
AdmitVerdict(c) ==
  /\ pc[c] = "running"
  /\ ~Ignored(attrs[c])
  /\ IF i[c] <= Len(pod[c]) THEN pod[c][i[c]] = EmptyList ELSE TRUE
  /\ pc' = [pc EXCEPT ![c] = "done"]
  /\ result' = [result EXCEPT ![c] = IF found[c] THEN "nil" ELSE "error"]
  /\ UNCHANGED <<flavors, flavors0, attrs, pod, pod0, i, found, last>>

Next ==
  \/ \E c \in Calls : AdmitIgnore(c)
  \/ \E c \in Calls : AdmitContainer(c)
  \/ \E c \in Calls : AdmitVerdict(c)

Spec == Init /\ [][Next]_vars

\* Two Admit calls in flight at once, each on its own pod, sharing the
\* catalog; the host runs each call on its own goroutine.
InitConc ==
  \E catalog \in ConcCatalogs, as \in [{1, 2} -> ConcAttributes], ps \in [{1, 2} -> ConcPods] :
    Start({1, 2}, catalog, as, ps)

SpecConc == InitConc /\ [][Next]_vars

---------------------------------------------------------------------------
(* Vocabulary of the properties                                            *)

\* Every dimension req declares is a dimension of flavor with an equal amount.
Contains(flavor, req) ==
  \A k \in DOMAIN req : k \in DOMAIN flavor /\ flavor[k].v = req[k].v

\* The same dimensions with equal amounts.
SameBundle(a, b) ==
  DOMAIN a = DOMAIN b /\ \A k \in DOMAIN a : a[k].v = b[k].v

IsFlavor(catalog, b) == \E n \in DOMAIN catalog : SameBundle(catalog[n], b)

MatchesSome(catalog, req) == \E n \in DOMAIN catalog : Contains(catalog[n], req)

\* req declares a (dimension, amount) pair that no flavor of the catalog has.
HasUnknownPair(catalog, req) ==
  \E k \in DOMAIN req :
    \A n \in DOMAIN catalog : k \notin DOMAIN catalog[n] \/ catalog[n][k].v # req[k].v

\* s is a non-empty part of flavor F, quantities copied verbatim.
VerbatimPart(s, F) ==
  /\ s # EmptyList
  /\ DOMAIN s \subseteq DOMAIN F
  /\ \A k \in DOMAIN s : s[k] = F[k]

\* The number of containers the loop of Admit runs the flavor loop on: the
\* containers before the first one without requests.
Scanned(p) ==
  IF \E j \in 1..Len(p) : p[j] = EmptyList
  THEN (CHOOSE j \in 1..Len(p) :
          p[j] = EmptyList /\ \A h \in 1..(j - 1) : p[h] # EmptyList) - 1
  ELSE Len(p)

FilteredIn(c) ==
  attrs[c].kind = "Pod" /\ attrs[c].subresource = "" /\ attrs[c].resource = "pods"

Admitted(c) == pc[c] = "done" /\ FilteredIn(c) /\ result[c] = "nil"

Rejected(c) == pc[c] = "done" /\ FilteredIn(c) /\ result[c] = "error"

\* The position of flavor name n in the enumeration order o.
PosIn(o, n) == CHOOSE a \in 1..Len(o) : o[a] = n

---------------------------------------------------------------------------
(* C1                                                                      *)

\* C1: whenever Admit admits a filtered-in pod, every container's request
\* bundle is, after the call, equal (same dimensions, equal amounts) to some
\* flavor of the catalog.
C1_AdmittedContainersAreFlavors ==
  \A c \in Calls :
    Admitted(c) => \A j \in 1..Len(pod[c]) : IsFlavor(flavors0, pod[c][j])

---------------------------------------------------------------------------
(* C2                                                                      *)

\* C2 as stated: Admit returns the error if and only if no container the
\* loop looked at matched a flavor, whatever the position of a matching one.
C2_RejectedIffNoContainerMatched ==
  \A c \in Calls :
    pc[c] = "done" /\ FilteredIn(c) =>
      (result[c] = "error" <=>
         ~\E j \in 1..Scanned(pod0[c]) : MatchesSome(flavors0, pod0[c][j]))

\* C2 amended: Admit returns nil if and only if the last container the loop
\* ran on (the last container of the pod, or the one before the first
\* container without requests) matched a flavor; with no such container it
\* returns the error.
C2_AdmittedIffLastScannedMatched ==
  \A c \in Calls :
    pc[c] = "done" /\ FilteredIn(c) =>
      (result[c] = "nil" <=>
         /\ Scanned(pod0[c]) >= 1
         /\ MatchesSome(flavors0, pod0[c][Scanned(pod0[c])]))

\* A pod is rejected although its first container matched a flavor.
C2_Witness ==
  \E c \in Calls :
    /\ Rejected(c)
    /\ Scanned(pod0[c]) = 2
    /\ MatchesSome(flavors0, pod0[c][1])
    /\ ~MatchesSome(flavors0, pod0[c][2])

---------------------------------------------------------------------------
(* C3                                                                      *)

\* C3 as stated: a rejected pod is unchanged, every container's bundle being
\* what it was before the call.
C3_RejectedPodUnchanged ==
  \A c \in Calls : Rejected(c) => pod[c] = pod0[c]

\* C3 amended: in a rejected pod the container whose failed match decided
\* the rejection and every container after it are unchanged; a container
\* that changed is an earlier one that matched a flavor.  A rejected pod of
\* one container is therefore unchanged.
C3_RejectedOnlyMatchedChanged ==
  \A c \in Calls :
    Rejected(c) =>
      \A j \in 1..Len(pod[c]) :
        pod[c][j] # pod0[c][j] =>
          j < Scanned(pod0[c]) /\ MatchesSome(flavors0, pod0[c][j])

\* A rejected pod whose first container was backfilled and whose second,
\* the one that failed, is as it was.
C3_Witness ==
  \E c \in Calls :
    /\ Rejected(c)
    /\ Len(pod[c]) = 2
    /\ pod[c][1] # pod0[c][1]
    /\ pod[c][2] = pod0[c][2]
    /\ pod[c][2] # EmptyList

---------------------------------------------------------------------------
(* C4                                                                      *)

\* C4: a filtered-in pod with a container whose request bundle is empty is
\* rejected, whatever the other containers declare, and the empty bundle
\* stays empty.
C4_EmptyRequestsRejected ==
  \A c \in Calls :
    pc[c] = "done" /\ FilteredIn(c) =>
      \A j \in 1..Len(pod0[c]) :
        pod0[c][j] = EmptyList => result[c] = "error" /\ pod[c][j] = EmptyList

---------------------------------------------------------------------------
(* C5                                                                      *)

\* C5 as stated: the flavor loop on a non-empty part S of a flavor F, copied
\* verbatim, matches and leaves the bundle equal to F, also when another
\* flavor contains S.
C5_PartCompletedToItsFlavor ==
  \A c \in Calls :
    LET j == last[c].idx
    IN  j > 0 =>
          \A n \in DOMAIN flavors0 :
            VerbatimPart(pod0[c][j], flavors0[n]) =>
              found[c] /\ pod[c][j] = flavors0[n]

\* C5 amended: the loop matches and leaves the bundle equal, amount for
\* amount, to a flavor of the catalog that contains S, the first one the
\* enumeration reaches; it is F itself when no other flavor contains S.
C5_PartCompletedToContainingFlavor ==
  \A c \in Calls :
    LET j == last[c].idx
    IN  j > 0 =>
          \A n \in DOMAIN flavors0 :
            VerbatimPart(pod0[c][j], flavors0[n]) =>
              /\ found[c]
              /\ last[c].name \in DOMAIN flavors0
              /\ Contains(flavors0[last[c].name], pod0[c][j])
              /\ SameBundle(flavors0[last[c].name], pod[c][j])
              /\ (\A m \in DOMAIN flavors0 :
                    Contains(flavors0[m], pod0[c][j]) => flavors0[m] = flavors0[n])
                 => pod[c][j] = flavors0[n]

\* The loop ran on a proper part of a flavor and filled in the rest.
C5_Witness ==
  \E c \in Calls :
    LET j == last[c].idx
    IN  /\ j > 0
        /\ \E n \in DOMAIN flavors0 :
             /\ VerbatimPart(pod0[c][j], flavors0[n])
             /\ DOMAIN pod0[c][j] # DOMAIN flavors0[n]
             /\ pod[c][j] = flavors0[n]
             /\ \E m \in DOMAIN flavors0 :
                  flavors0[m] # flavors0[n] /\ Contains(flavors0[m], pod0[c][j])

---------------------------------------------------------------------------
(* C6                                                                      *)

\* C6: for a request bundle with a (dimension, amount) pair that occurs in
\* no flavor, matchFlavor returns false for every flavor, the container's
\* loop ends without a match and leaves the bundle alone, and a pod whose
\* only container has such a bundle is rejected.
C6_UnknownPairNeverMatches ==
  \A c \in Calls :
    \A j \in 1..Len(pod0[c]) :
      HasUnknownPair(flavors0, pod0[c][j]) =>
        /\ \A n \in DOMAIN flavors0 : ~matchFlavor(flavors0[n], pod0[c][j]).found
        /\ last[c].idx = j =>
             ~found[c] /\ last[c].name = "" /\ pod[c][j] = pod0[c][j]
        /\ pc[c] = "done" /\ FilteredIn(c) /\ Len(pod0[c]) = 1 => result[c] = "error"

\* A rejected pod whose only container agrees with a flavor in one
\* dimension and declares an amount no flavor has in the other.
C6_Witness ==
  \E c \in Calls :
    /\ Rejected(c)
    /\ Len(pod0[c]) = 1
    /\ last[c].idx = 1
    /\ HasUnknownPair(flavors0, pod0[c][1])
    /\ \E n \in DOMAIN flavors0 : \E k \in DOMAIN pod0[c][1] :
         k \in DOMAIN flavors0[n] /\ flavors0[n][k].v = pod0[c][1][k].v

---------------------------------------------------------------------------
(* C7                                                                      *)

\* C7: a request that is not for a Pod, or names a subresource, or whose
\* resource is not "pods", gets nil and its object is unchanged, whatever
\* the catalog and the containers.
C7_IgnoredRequestPassesUnchanged ==
  \A c \in Calls :
    (attrs[c].kind # "Pod" \/ attrs[c].subresource # "" \/ attrs[c].resource # "pods") =>
      /\ pod[c] = pod0[c]
      /\ last[c] = NoLast
      /\ pc[c] = "done" => result[c] = "nil"

\* A request on a subresource of a pod whose container matches no flavor
\* has returned.
C7_Witness ==
  \E c \in Calls :
    /\ pc[c] = "done"
    /\ attrs[c].kind = "Pod" /\ attrs[c].resource = "pods" /\ attrs[c].subresource # ""
    /\ Len(pod0[c]) >= 1
    /\ \E j \in 1..Len(pod0[c]) :
         pod0[c][j] # EmptyList /\ ~MatchesSome(flavors0, pod0[c][j])
    /\ \E j \in 1..Len(pod0[c]) : pod0[c][j] = EmptyList

---------------------------------------------------------------------------
(* C8                                                                      *)

\* C8: a container whose flavor loop succeeds had exactly one flavor G
\* applied, the first of the enumeration that contains every declared
\* dimension with an equal amount; afterwards the bundle has G's dimensions,
\* every declared dimension keeps its original quantity and every added one
\* carries G's quantity.
C8_FirstMatchApplied ==
  \A c \in Calls :
    LET j == last[c].idx
        o == last[c].order
    IN  j > 0 /\ found[c] =>
          /\ last[c].name \in DOMAIN flavors0
          /\ LET G    == flavors0[last[c].name]
                 orig == pod0[c][j]
                 b    == pod[c][j]
             IN  /\ Contains(G, orig)
                 /\ \A a \in 1..(PosIn(o, last[c].name) - 1) :
                      ~Contains(flavors0[o[a]], orig)
                 /\ DOMAIN b = DOMAIN G
                 /\ \A k \in DOMAIN orig : b[k] = orig[k]
                 /\ \A k \in DOMAIN G \ DOMAIN orig : b[k] = G[k]

\* A loop that matched a flavor with an equal amount written differently
\* ("1000m" for "1") and filled in a dimension, while another flavor of the
\* catalog holds a different quantity for that dimension.
C8_Witness ==
  \E c \in Calls :
    LET j == last[c].idx
    IN  /\ j > 0 /\ found[c]
        /\ last[c].name \in DOMAIN flavors0
        /\ \E k \in DOMAIN pod0[c][j] : pod0[c][j][k] # flavors0[last[c].name][k]
        /\ DOMAIN pod[c][j] # DOMAIN pod0[c][j]
        /\ \E m \in DOMAIN flavors0 : \E k \in DOMAIN pod[c][j] \ DOMAIN pod0[c][j] :
             k \in DOMAIN flavors0[m] /\ flavors0[m][k] # pod[c][j][k]

---------------------------------------------------------------------------
(* C9                                                                      *)

\* What one Admit call running alone on containers p can end with, from
\* container j on with found = fnd, over every enumeration of the catalog.
RECURSIVE SoloFrom(_, _, _)
SoloFrom(p, j, fnd) ==
  IF j > Len(p) \/ p[j] = EmptyList
  THEN {[result |-> IF fnd THEN "nil" ELSE "error", pod |-> p]}
  ELSE UNION { LET r == matchLoop(flavors0, o, p[j], fnd)
               IN  SoloFrom([p EXCEPT ![j] = r.req], j + 1, r.found)
               : o \in Perms(DOMAIN flavors0) }

SoloOutcomes(a, p) ==
  IF a.kind # "Pod" \/ a.subresource # "" \/ a.resource # "pods"
  THEN {[result |-> "nil", pod |-> p]}
  ELSE SoloFrom(p, 1, FALSE)

\* C9: no Admit call changes the catalog, and every call that runs
\* interleaved with another one ends with a verdict and bundles that the
\* same call running alone can end with.
C9_CatalogReadOnlyCallsIndependent ==
  /\ flavors = flavors0
  /\ \A c \in Calls :
       pc[c] = "done" =>
         [result |-> result[c], pod |-> pod[c]] \in SoloOutcomes(attrs[c], pod0[c])

\* Both calls have returned, one admitting with a backfilled container and
\* one rejecting, after both ran their flavor loops.
C9_Witness ==
  /\ Calls = {1, 2}
  /\ Admitted(1) /\ pod[1] # pod0[1]
  /\ Rejected(2) /\ last[2].idx > 0

---------------------------------------------------------------------------
(* C10                                                                     *)

\* C10: whenever matchFlavor returns false the request is as it was before
\* the call, so a loop that ends without a match leaves the container's
\* bundle alone and a loop that matches flavor G leaves what matchFlavor
\* makes of G and the original bundle.
C10_FailedCandidateLeavesNoTrace ==
  \A c \in Calls :
    /\ \A j \in 1..Len(pod0[c]) : \A n \in DOMAIN flavors0 :
         LET r == matchFlavor(flavors0[n], pod0[c][j])
         IN  ~r.found => r.req = pod0[c][j]
    /\ LET j == last[c].idx
       IN  j > 0 =>
             IF last[c].name = ""
             THEN pod[c][j] = pod0[c][j]
             ELSE /\ last[c].name \in DOMAIN flavors0
                  /\ DOMAIN pod[c][j] = DOMAIN flavors0[last[c].name]
                  /\ \A k \in DOMAIN pod[c][j] :
                       pod[c][j][k] = IF k \in DOMAIN pod0[c][j]
                                      THEN pod0[c][j][k]
                                      ELSE flavors0[last[c].name][k]

\* A loop that matched its second candidate after the first one, which has
\* a dimension the bundle lacks with a quantity of its own, failed.
C10_Witness ==
  \E c \in Calls :
    LET j == last[c].idx
        o == last[c].order
    IN  /\ j > 0
        /\ Len(o) = 2
        /\ last[c].name = o[2]
        /\ \E k \in DOMAIN flavors0[o[1]] \ DOMAIN pod0[c][j] :
             k \in DOMAIN flavors0[o[2]] /\ flavors0[o[1]][k] # flavors0[o[2]][k]

====
